---- MODULE Spec2Model ----
(***************************************************************************)
(* Model of src/pars.py: class TGStatParser.                               *)
(*                                                                         *)
(* One parser instance, driven by one control thread: the constructor,     *)
(* then any sequence of search_channels and get_channel_posts calls.  The  *)
(* HTTP transport and the markup library are the environment: every reply  *)
(* (a transport failure, a JSON envelope, a page) is drawn from a small    *)
(* set.  An HTML fragment is the sequence of the elements the extractor    *)
(* looks for; the empty sequence is the empty string.                      *)
(*                                                                         *)
(* Python's None is the empty set and a present value v is {v}; a key a    *)
(* JSON envelope may lack is modelled the same way.  JSON values of the    *)
(* wrong type (a null or a string where the code compares numbers) are not *)
(* drawn: they raise in the code and belong to no claim.                   *)
(*                                                                         *)
(* Spec is the parser and its driver.  ExtractSpec calls _parse_number,    *)
(* _parse_search_html and _parse_posts_html on their own, on texts (a      *)
(* sequence of characters) and on fragments whose cards and posts carry    *)
(* their statistics.                                                       *)
(***************************************************************************)
EXTENDS Integers, Sequences, FiniteSets, TLC

VARIABLES
    csrf_token_form,  \* self.csrf_token_form
    pc,               \* position of the control thread
    op,               \* the operation called last: "none", "search", "posts"
    result,           \* return value of the call that ended last
    max_pages,        \* search_channels argument
    max_posts,        \* get_channel_posts argument
    all_channels,     \* search_channels local
    all_posts,        \* get_channel_posts local
    current_page,     \* search_channels local
    current_offset,   \* local of both operations
    has_more,         \* local of both operations
    last_post_id,     \* get_channel_posts local
    \* history of the current call, written only when a request or a reply happens
    ncalls,           \* calls of _make_search_request / _make_more_posts_request
    nreq,             \* POST requests sent
    sent,             \* page and offset of the last POST sent
    fetched,          \* records of every reply so far, in request order
    first,            \* what the first fetch of the call gave
    last,             \* the last reply, without its html
    allGood,          \* every reply so far: ok, non-empty html, >= 1 record
    morePrefix,       \* every reply before the last one had hasMore = true
    noSkip,           \* no reply carried a nextPage above the requests sent
    delays,           \* calls of time.sleep
    initial,          \* posts of the landing page, 0 before it is parsed
    refresh,          \* what the refresh of the last step found, None without one
    \* the extractors and the number parser, called on their own
    input             \* the argument of the call; its return value is result

vars == <<csrf_token_form, pc, op, result, max_pages, max_posts, all_channels,
          all_posts, current_page, current_offset, has_more, last_post_id,
          ncalls, nreq, sent, fetched, first, last, allGood, morePrefix, noSkip,
          delays, initial, refresh, input>>

locals == <<max_pages, max_posts, all_channels, all_posts, current_page,
            current_offset, has_more, last_post_id>>

history == <<ncalls, nreq, sent, fetched, first, last, allGood, morePrefix, noSkip,
             delays, initial, refresh>>

\* the part of the history a reply writes
replies == <<fetched, first, last, allGood, morePrefix, noSkip>>

----------------------------------------------------------------------------
\* Bounds of the model.

MaxPages == 2      \* max_pages is drawn from 0..MaxPages
MaxPosts == 3      \* max_posts is drawn from 0..MaxPosts
MaxCards == 1      \* elements of one HTML fragment of a JSON envelope
MaxLanding == 2    \* elements of the channel landing page
MaxText == 3       \* characters of a text given to the number parser
MaxFragment == 2   \* elements of a fragment given to an extractor

\* A search may run past its page budget (a reply can set the page index back):
\* the model follows a call for one request beyond the budget and no further.
WithinModel == nreq <= max_pages

----------------------------------------------------------------------------
\* Python values.

None == {}

Some(v) == {v}

The(o) == CHOOSE x \in o : TRUE

Option(S) == {None} \cup {Some(x) : x \in S}

\* dict.get(key, default) on a key that may be absent
Get(o, default) == IF o = None THEN default ELSE The(o)

\* truth value of an optional string: None and "" are false
TruthyStr(o) == o # None /\ o # Some("")

\* a slip: "is not None" where the truth value is meant
TruthyIntNotNone(o) == o # None

\* truth value of an optional number: None and 0 are false
TruthyInt(o) == o # None /\ o # Some(0)

Min(a, b) == IF a < b THEN a ELSE b

Max(a, b) == IF a > b THEN a ELSE b

SeqsUpTo(S, n) == UNION {[1..k -> S] : k \in 0..n}

Last(s) == s[Len(s)]

\* a slip: the list is returned whole
PySliceWhole(xs, n) == xs

\* xs[:n]
PySlice(xs, n) ==
    IF n >= 0 THEN SubSeq(xs, 1, Min(n, Len(xs)))
              ELSE SubSeq(xs, 1, Max(0, Len(xs) + n))

----------------------------------------------------------------------------
\* Texts and numbers.  A text is a sequence of characters.

\* str.lower, on the letters the number parser looks at
Lower(c) ==
    CASE c = "K" -> "k" [] c = "M" -> "m" [] c = "N" -> "n" [] c = "A" -> "a"
      [] c = "I" -> "i" [] c = "F" -> "f" [] OTHER -> c

IsSpace(c) == c = " "

NotSpace(c) == c # " "

\* text.replace(' ', '')
Unspaced(text) == SelectSeq(text, NotSpace)

\* text.strip()
RECURSIVE Strip(_)
Strip(text) ==
    IF text = <<>> THEN <<>>
    ELSE IF IsSpace(text[1]) THEN Strip(Tail(text))
    ELSE IF IsSpace(text[Len(text)]) THEN Strip(SubSeq(text, 1, Len(text) - 1))
    ELSE text

\* text.lower()
Lowered(text) == [i \in 1..Len(text) |-> Lower(text[i])]

\* text.replace(',', '.')
Dotted(text) == [i \in 1..Len(text) |-> IF text[i] = "," THEN "." ELSE text[i]]

\* text.lower().strip().replace(',', '.').replace(' ', '')
Cleaned(text) == Unspaced(Dotted(Strip(Lowered(text))))

Digits == {"0", "1", "2", "3", "4", "5", "6", "7", "8", "9"}

DigitValue(c) ==
    CASE c = "0" -> 0 [] c = "1" -> 1 [] c = "2" -> 2 [] c = "3" -> 3 [] c = "4" -> 4
      [] c = "5" -> 5 [] c = "6" -> 6 [] c = "7" -> 7 [] c = "8" -> 8 [] c = "9" -> 9

IsDigit(c) == c \in Digits

NotDot(c) == c # "."

NotK(c) == c # "k"

NotM(c) == c # "m"

RECURSIVE Pow10(_)
Pow10(n) == IF n = 0 THEN 1 ELSE 10 * Pow10(n - 1)

\* the number a string of digits denotes
RECURSIVE Decimal(_)
Decimal(digits) ==
    IF digits = <<>> THEN 0
    ELSE 10 * Decimal(SubSeq(digits, 1, Len(digits) - 1))
             + DigitValue(digits[Len(digits)])

AllDigits(text) == text # <<>> /\ \A i \in 1..Len(text) : IsDigit(text[i])

\* a float: finite (num / 10^places), infinite, or not a number; "error" is
\* the ValueError of float() on a text that is no float literal
Finite(num, places) == [kind |-> "finite", num |-> num, places |-> places]

Infinite == [kind |-> "inf", num |-> 0, places |-> 0]

NotANumber == [kind |-> "nan", num |-> 0, places |-> 0]

FloatError == [kind |-> "error", num |-> 0, places |-> 0]

\* the position of the first "." of the text, 0 without one
RECURSIVE DotAt(_)
DotAt(text) ==
    IF text = <<>> THEN 0
    ELSE IF text[1] = "." THEN 1
    ELSE IF DotAt(Tail(text)) = 0 THEN 0 ELSE 1 + DotAt(Tail(text))

\* float() of a text of digits with at most one "."
PyDecimal(text, digits) ==
    IF AllDigits(digits) /\ Len(text) - Len(digits) <= 1
    THEN Finite(Decimal(digits), IF DotAt(text) = 0 THEN 0 ELSE Len(text) - DotAt(text))
    ELSE FloatError

\* float(text), for texts without sign and exponent
PyFloat(text) ==
    IF text \in {<<"i", "n", "f">>, <<"i", "n", "f", "i", "n", "i", "t", "y">>}
    THEN Infinite
    ELSE IF text = <<"n", "a", "n">> THEN NotANumber
    ELSE PyDecimal(text, SelectSeq(text, NotDot))

\* what a call gives: a value, or an exception that leaves the function
Returns(value) == [raises |-> FALSE, value |-> value]

OverflowError == [raises |-> TRUE, value |-> None]

\* int(float * factor) inside the try of _parse_number: float() and int() of
\* a NaN raise ValueError, which is caught; int() of an infinity raises
\* OverflowError, which is not
Scaled(float, factor) ==
    IF float.kind = "finite"
    THEN Returns(Some((float.num * factor) \div Pow10(float.places)))
    ELSE IF float.kind = "inf" THEN OverflowError
    ELSE Returns(None)

\* the factor of the suffix: 'm' is looked for before 'k'
Factor(text) ==
    IF \E i \in 1..Len(text) : text[i] = "m" THEN 1000000
    ELSE IF \E i \in 1..Len(text) : text[i] = "k" THEN 1000
    ELSE 1

\* the text without its suffix letters: text.replace('m', '') or
\* text.replace('k', '')
Unsuffixed(text) ==
    IF \E i \in 1..Len(text) : text[i] = "m" THEN SelectSeq(text, NotM)
    ELSE IF \E i \in 1..Len(text) : text[i] = "k" THEN SelectSeq(text, NotK)
    ELSE text

\* the function from the cleaned text on: 0 for the three texts of line 296,
\* int(text) for a text of digits, else int(float(...) * factor)
ParseCleaned(text) ==
    IF text = <<>> \/ text = <<"n", "/", "a">> \/ text = <<"0">>
    THEN Returns(Some(0))
    ELSE IF Factor(text) = 1 /\ AllDigits(text) THEN Returns(Some(Decimal(text)))
    ELSE Scaled(PyFloat(Unsuffixed(text)), Factor(text))

_parse_number(raw) == ParseCleaned(Cleaned(raw))

----------------------------------------------------------------------------
\* What the environment can send.

Ids == {1, 2}

Tokens == {"", "t1"}

\* a div.peer-item-row.  id is the handle of its /channel/<handle>/stat link;
\* nested: it is not a direct child of the list holder; stats is the sequence
\* of the stat columns of its stats container, each the text of its h4 or
\* None without one, and None without a container; subs_div is the number
\* part of the text of the fallback subscribers div, None without one
CardOf(id, nested, stats, subs_div) ==
    [tag |-> "card", id |-> id, nested |-> nested, stats |-> stats,
     subs_div |-> subs_div]

\* a card without statistics, as the replies of the driver's requests carry
Card(id) == CardOf(id, FALSE, None, None)

\* a div.post-container.  id is the number of its id="post-<digits>"; text
\* is the text of its body, None without a body; stats_row is None or the
\* texts of the views link, the shares link and the forwards span, each None
\* when the element is missing
PostOf(id, nested, text, stats_row) ==
    [tag |-> "post", id |-> id, nested |-> nested, text |-> text,
     stats_row |-> stats_row]

\* a post without body and stats row, as the driver's replies carry
Post(id) == PostOf(id, FALSE, None, None)

\* an element that is neither a card nor a post
Text == [Post(None) EXCEPT !.tag = "text"]

SearchNodes == {Card(i) : i \in Option(Ids)}

PostNodes == {Text} \cup {Post(i) : i \in Option(Ids)}

\* the page a token refresh fetches: the GET fails, or the page has or lacks
\* the meta tag's content and the hidden input's value
NoPage == [ok |-> FALSE, meta |-> None, input |-> None]

CarrierPages == [ok : {TRUE}, meta : Option(Tokens), input : Option(Tokens)] \cup {NoPage}

NextPages == {0, MaxPages}

NextCursors == {0, 9}

NextOffsets == {7}

ErrorEnvelope ==
    [status |-> "error", html |-> None, hasMore |-> None,
     nextPage |-> None, nextOffset |-> None]

Envelopes(nodes, pages) ==
    [status : {"ok"}, html : Option(SeqsUpTo(nodes, MaxCards)),
     hasMore : Option(BOOLEAN), nextPage : Option(pages),
     nextOffset : Option(NextOffsets)] \cup {ErrorEnvelope}

\* what _make_search_request returns after the POST: None or the JSON
SearchReplies == Option(Envelopes(SearchNodes, NextPages))

\* what _make_more_posts_request returns after the POST
PostsReplies == Option(Envelopes(PostNodes, NextCursors))

\* what _get_initial_posts_html returns: None or response.text
LandingReplies == Option(SeqsUpTo(PostNodes, MaxLanding))

----------------------------------------------------------------------------
\* TokenSession.

\* a slip: the hidden input is not looked at
_refresh_csrf_token_meta_only(page) == IF ~page.ok THEN None ELSE page.meta

\* the token _refresh_csrf_token stores
_refresh_csrf_token(page) ==
    IF ~page.ok THEN None
    ELSE IF page.meta # None THEN page.meta
    ELSE IF page.input # None THEN page.input
    ELSE None

\* a slip: the request goes on whatever the refresh returned
AcquireTokenGoesOn(token, page) ==
    IF TruthyStr(token) THEN <<token, TRUE>>
    ELSE <<_refresh_csrf_token(page), TRUE>>

\* the token check that opens both request methods: <<token, go>>
AcquireToken(token, page) ==
    IF TruthyStr(token) THEN <<token, TRUE>>
    ELSE <<_refresh_csrf_token(page), _refresh_csrf_token(page) # None>>

\* the GET of a refresh happens only when the stored token is false
RefreshPages == IF csrf_token_form \in {None, Some("")} THEN CarrierPages ELSE {NoPage}

\* the token the page carries: the meta tag's before the input's
Extracted(page) == IF page.meta # None THEN page.meta ELSE page.input

\* what a refresh that fetches the page finds
Found(page) == [ok |-> page.ok, token |-> Extracted(page)]

\* what a request method's refresh found, None when it did not refresh
Refreshed(page) ==
    IF csrf_token_form \in {None, Some("")} THEN Some(Found(page)) ELSE None

----------------------------------------------------------------------------
\* MarkupExtractor.

IsCard(node) == node.tag = "card"

IsDirectCard(node) == node.tag = "card" /\ ~node.nested

HasLink(node) == node.tag = "card" /\ node.id # None

IsPost(node) == node.tag = "post"

IsDirectPost(node) == node.tag = "post" /\ ~node.nested

\* find_all(..., recursive=False), and find_all anywhere when that is empty
DirectOrAny(direct, any) == IF direct # <<>> THEN direct ELSE any

channel_cards(html_content) ==
    DirectOrAny(SelectSeq(html_content, IsDirectCard), SelectSeq(html_content, IsCard))

post_containers(html_content) ==
    DirectOrAny(SelectSeq(html_content, IsDirectPost), SelectSeq(html_content, IsPost))

\* the three h4 texts of a card: read only when there are exactly 3 columns
stats_cols(card) ==
    IF card.stats # None /\ Len(The(card.stats)) = 3 THEN The(card.stats)
    ELSE <<None, None, None>>

\* one statistic: the number of its text, None without the element.  The
\* records keep the numbers; the raw texts kept beside them ('N/A' without
\* the element) are left out
StatOf(text) ==
    IF text = None THEN Returns(None) ELSE _parse_number(Strip(The(text)))

\* the fallback: the number of the subscribers div, read when the first
\* column gave None
SubscribersOr(column, card) ==
    IF ~column.raises /\ column.value = None /\ card.subs_div # None
    THEN StatOf(Some(Unspaced(The(card.subs_div))))
    ELSE column

Subscribers(card) == SubscribersOr(StatOf(stats_cols(card)[1]), card)

\* the dict of a card, or None when a statistic raised and the card is skipped
ChannelRecord(card, subscribers, avg_reach, ci_index) ==
    IF subscribers.raises \/ avg_reach.raises \/ ci_index.raises THEN None
    ELSE Some([username |-> The(card.id),
               subscribers |-> subscribers.value,
               avg_reach |-> avg_reach.value,
               ci_index |-> ci_index.value])

\* the body of the loop over the cards: the record appended, or None when the
\* card has no link or the body raises
channel_info(card) ==
    IF ~HasLink(card) THEN None
    ELSE IF card.stats = None /\ card.subs_div = None
    THEN Some([username |-> The(card.id), subscribers |-> None,
               avg_reach |-> None, ci_index |-> None])
    ELSE ChannelRecord(card, Subscribers(card), StatOf(stats_cols(card)[2]),
                       StatOf(stats_cols(card)[3]))

\* channels.append(channel_info) was reached
IsAppended(record) == record # None

\* the records of the elements that gave one, in order
Appended(records) ==
    LET kept == SelectSeq(records, IsAppended)
    IN  [i \in 1..Len(kept) |-> The(kept[i])]

CardsParsed(cards) == Appended([i \in 1..Len(cards) |-> channel_info(cards[i])])

_parse_search_html(html_content) == CardsParsed(channel_cards(html_content))

\* the three metrics of a post: read only when the stats row is there
Metric(post_tag, name) ==
    IF post_tag.stats_row = None THEN Returns(None)
    ELSE StatOf(The(post_tag.stats_row)[name])

\* the dict of a post, or None when a metric raised and the post is skipped
PostRecord(post_tag, views, shares, forwards) ==
    IF views.raises \/ shares.raises \/ forwards.raises THEN None
    ELSE Some([id |-> post_tag.id,
               text |-> post_tag.text,
               views |-> views.value,
               shares |-> shares.value,
               forwards |-> forwards.value])

\* the body of the loop over the posts: the record appended, or None when the
\* body raises
post_data(post_tag) ==
    IF post_tag.stats_row = None
    THEN Some([id |-> post_tag.id, text |-> post_tag.text, views |-> None,
               shares |-> None, forwards |-> None])
    ELSE PostRecord(post_tag, Metric(post_tag, "views"), Metric(post_tag, "shares"),
               Metric(post_tag, "forwards"))

PostsParsed(posts) == Appended([i \in 1..Len(posts) |-> post_data(posts[i])])

_parse_posts_html(html_content) == PostsParsed(post_containers(html_content))

----------------------------------------------------------------------------
\* Reading a reply.

\* a slip: the status of the envelope is not looked at
FailedNoReplyOnly(reply) == reply = None

\* not search_result or search_result.get('status') != 'ok'
Failed(reply) == reply = None \/ The(reply).status # "ok"

\* search_result.get('html', '')
Html(reply) == Get(The(reply).html, <<>>)

\* a slip: an empty html is parsed like any other
NoHtmlNever(reply) == FALSE

\* not html_content
NoHtml(reply) == Html(reply) = <<>>

\* a slip: the loop goes on whatever hasMore says
HasMoreAlways(reply) == TRUE

\* search_result.get('hasMore', False)
HasMore(reply) == Get(The(reply).hasMore, FALSE)

\* search_result.get('nextPage', current_page + 1)
NextPage(reply, page) == Get(The(reply).nextPage, page + 1)

\* a slip: the default is the page size, not the offset advanced by it
NextOffsetPageSize(reply, offset) == Get(The(reply).nextOffset, 30)

\* search_result.get('nextOffset', current_offset + 30)
NextOffset(reply, offset) == Get(The(reply).nextOffset, offset + 30)

\* current_page == 0, the driver's test for the first page
FirstPage(page) == page = 0

----------------------------------------------------------------------------
\* The history of a call: what was on the wire, read off the replies themselves
\* and not off the driver's reading of them.

Usable(reply) == reply # None /\ The(reply).status = "ok"

\* the html a reply carries, whatever the driver does with it
ReplyHtml(reply) ==
    IF Usable(reply) /\ The(reply).html # None THEN The(The(reply).html) ELSE <<>>

SearchRecords(reply) == _parse_search_html(ReplyHtml(reply))

PostsRecords(reply) == _parse_posts_html(ReplyHtml(reply))

Class(reply, records) ==
    IF ~Usable(reply) THEN "fail"
    ELSE IF ReplyHtml(reply) = <<>> THEN "empty"
    ELSE IF records = <<>> THEN "zero"
    ELSE "some"

NoReply == [class |-> "none", hasMore |-> FALSE, nextPage |-> None, nextOffset |-> None]

Seen(reply, records) ==
    [class |-> Class(reply, records),
     hasMore |-> Usable(reply) /\ The(reply).hasMore = Some(TRUE),
     nextPage |-> IF Usable(reply) THEN The(reply).nextPage ELSE None,
     nextOffset |-> IF Usable(reply) THEN The(reply).nextOffset ELSE None]

----------------------------------------------------------------------------
\* State after construction starts, and the constructor.

NoRequest == [page |-> 0, offset |-> 0]

FreshLocals ==
    /\ all_channels' = <<>>
    /\ all_posts' = <<>>
    /\ current_page' = 0
    /\ current_offset' = 0
    /\ has_more' = TRUE
    /\ last_post_id' = None

FreshHistory ==
    /\ ncalls' = 0
    /\ nreq' = 0
    /\ sent' = NoRequest
    /\ fetched' = <<>>
    /\ first' = "none"
    /\ last' = NoReply
    /\ allGood' = TRUE
    /\ morePrefix' = TRUE
    /\ noSkip' = TRUE
    /\ delays' = 0
    /\ initial' = 0
    /\ refresh' = None

\* no parser is constructed yet
NoParser ==
    /\ csrf_token_form = None
    /\ op = "none"
    /\ result = None
    /\ max_pages = 0
    /\ max_posts = 0
    /\ all_channels = <<>>
    /\ all_posts = <<>>
    /\ current_page = 0
    /\ current_offset = 0
    /\ has_more = TRUE
    /\ last_post_id = None
    /\ ncalls = 0
    /\ nreq = 0
    /\ sent = NoRequest
    /\ fetched = <<>>
    /\ first = "none"
    /\ last = NoReply
    /\ allGood = TRUE
    /\ morePrefix = TRUE
    /\ noSkip = TRUE
    /\ delays = 0
    /\ initial = 0
    /\ refresh = None

Init ==
    /\ NoParser
    /\ pc = "new"
    /\ input = None

\* a slip: the result of the first refresh is not looked at
ConstructNeverRaises(page) ==
    /\ pc = "new"
    /\ csrf_token_form' = _refresh_csrf_token(page)
    /\ pc' = "idle"
    /\ refresh' = Some(Found(page))
    /\ UNCHANGED <<op, result, locals, ncalls, nreq, sent, replies, delays, initial>>
    /\ UNCHANGED input

\* __init__: one refresh; ConnectionError when it fails
Construct(page) ==
    /\ pc = "new"
    /\ csrf_token_form' = _refresh_csrf_token(page)
    /\ pc' = IF _refresh_csrf_token(page) = None THEN "raised" ELSE "idle"
    /\ refresh' = Some(Found(page))
    /\ UNCHANGED <<op, result, locals, ncalls, nreq, sent, replies, delays, initial>>
    /\ UNCHANGED input

\* a return statement: the frame is dropped (the arguments stay on record)
Return(value) ==
    /\ result' = value
    /\ pc' = "done"
    /\ FreshLocals
    /\ UNCHANGED <<max_pages, max_posts>>

\* the caller has the return value and the parser is free for the next call
CallerResumes ==
    /\ pc = "done"
    /\ pc' = "idle"
    /\ op' = "none"
    /\ result' = None
    /\ max_pages' = 0
    /\ max_posts' = 0
    /\ FreshHistory
    /\ UNCHANGED <<csrf_token_form, all_channels, all_posts, current_page,
                   current_offset, has_more, last_post_id>>
    /\ UNCHANGED input

----------------------------------------------------------------------------
\* search_channels.

search_channels(pages) ==
    /\ pc = "idle"
    /\ op' = "search"
    /\ result' = None
    /\ pc' = "s_loop"
    /\ max_pages' = pages
    /\ max_posts' = 0
    /\ all_channels' = <<>>
    /\ all_posts' = <<>>
    /\ current_page' = 0
    /\ current_offset' = 0
    /\ has_more' = TRUE
    /\ last_post_id' = None
    /\ refresh' = None
    /\ UNCHANGED <<csrf_token_form, ncalls, nreq, sent, replies, delays, initial>>
    /\ UNCHANGED input

SearchContinues == current_page < max_pages /\ has_more

\* the while condition is false: return all_channels
SearchExit ==
    /\ pc = "s_loop"
    /\ ~SearchContinues
    /\ Return(Some(all_channels))
    /\ UNCHANGED <<csrf_token_form, op, history>>
    /\ UNCHANGED input

\* a slip: the delay is applied after every page
DelayAlways(more, page) == TRUE

\* if has_more and current_page < max_pages: the politeness delay is applied
Delay(more, page) == more /\ page < max_pages

\* the body of the loop from the reply on
SearchHandle(search_result) ==
    LET parsed_channels == _parse_search_html(Html(search_result))
    IN
    IF Failed(search_result) THEN
        IF FirstPage(current_page) THEN Return(None)
                                   ELSE Return(Some(all_channels))
    ELSE IF NoHtml(search_result) THEN Return(Some(all_channels))
    ELSE IF parsed_channels = <<>> /\ FirstPage(current_page)
         THEN Return(Some(<<>>))
    ELSE IF Delay(HasMore(search_result), NextPage(search_result, current_page))
         THEN /\ all_channels' = all_channels \o parsed_channels
              /\ has_more' = HasMore(search_result)
              /\ current_page' = NextPage(search_result, current_page)
              /\ current_offset' = NextOffset(search_result, current_offset)
              /\ pc' = "s_sleep"
              /\ UNCHANGED <<result, max_pages, max_posts, all_posts, last_post_id>>
    \* no delay: the while condition, which is the same test, ends the loop
    ELSE Return(Some(all_channels \o parsed_channels))

SearchSeen(search_result) ==
    LET records == SearchRecords(search_result)
    IN
    /\ fetched' = fetched \o records
    /\ first' = IF ncalls = 1 THEN Class(search_result, records) ELSE first
    /\ last' = Seen(search_result, records)
    /\ allGood' = (allGood /\ Class(search_result, records) = "some")
    /\ morePrefix' = (morePrefix /\ (ncalls = 1 \/ last.hasMore))
    /\ noSkip' = (noSkip /\ (~Usable(search_result)
                             \/ Get(The(search_result).nextPage, 0) <= nreq))

\* _make_search_request is called and has a token for the POST
SearchAcquire(page) ==
    /\ pc = "s_loop"
    /\ SearchContinues
    /\ WithinModel
    /\ AcquireToken(csrf_token_form, page)[2]
    /\ csrf_token_form' = AcquireToken(csrf_token_form, page)[1]
    /\ pc' = "s_post"
    /\ ncalls' = ncalls + 1
    /\ refresh' = Refreshed(page)
    /\ UNCHANGED <<op, result, locals, nreq, sent, replies, delays, initial>>
    /\ UNCHANGED input

\* the POST of _make_search_request is sent
SearchSend ==
    /\ pc = "s_post"
    /\ pc' = "s_wait"
    /\ nreq' = nreq + 1
    /\ sent' = [page |-> current_page, offset |-> current_offset]
    /\ refresh' = None
    /\ UNCHANGED <<csrf_token_form, op, result, locals, ncalls, replies, delays, initial>>
    /\ UNCHANGED input

\* _make_search_request gives up before the POST: the refresh failed
SearchAbort(page) ==
    /\ pc = "s_loop"
    /\ SearchContinues
    /\ WithinModel
    /\ ~AcquireToken(csrf_token_form, page)[2]
    /\ csrf_token_form' = AcquireToken(csrf_token_form, page)[1]
    /\ ncalls' = ncalls + 1
    /\ SearchHandle(None)
    /\ fetched' = fetched
    /\ first' = IF ncalls = 0 THEN "fail" ELSE first
    /\ last' = Seen(None, <<>>)
    /\ allGood' = FALSE
    /\ morePrefix' = (morePrefix /\ (ncalls = 0 \/ last.hasMore))
    /\ refresh' = Refreshed(page)
    /\ UNCHANGED <<op, nreq, sent, noSkip, delays, initial>>
    /\ UNCHANGED input

\* the POST is answered and the loop body runs on the answer
SearchReply(search_result) ==
    /\ pc = "s_wait"
    /\ SearchHandle(search_result)
    /\ SearchSeen(search_result)
    /\ UNCHANGED <<csrf_token_form, op, ncalls, nreq, sent, delays, initial, refresh>>
    /\ UNCHANGED input

\* time.sleep(random.uniform(1.5, 3.0))
SearchSleep ==
    /\ pc = "s_sleep"
    /\ pc' = "s_loop"
    /\ delays' = delays + 1
    /\ UNCHANGED <<csrf_token_form, op, result, locals, ncalls, nreq, sent,
                   replies, initial, refresh>>
    /\ UNCHANGED input

----------------------------------------------------------------------------
\* get_channel_posts.

Handles == {"", "@rian_ru"}

\* the channel name is empty: return None before any fetch
PostsRejected(channel_username_or_id) ==
    /\ pc = "idle"
    /\ channel_username_or_id = ""
    /\ op' = "posts"
    /\ Return(None)
    /\ refresh' = None
    /\ UNCHANGED <<csrf_token_form, ncalls, nreq, sent, replies, delays, initial>>
    /\ UNCHANGED input

\* the call, up to the GET of _get_initial_posts_html
get_channel_posts(channel_username_or_id, posts) ==
    /\ pc = "idle"
    /\ channel_username_or_id # ""
    /\ op' = "posts"
    /\ result' = None
    /\ pc' = "p_landing"
    /\ max_pages' = 0
    /\ max_posts' = posts
    /\ all_channels' = <<>>
    /\ all_posts' = <<>>
    /\ current_page' = 0
    /\ current_offset' = 0
    /\ has_more' = TRUE
    /\ last_post_id' = None
    /\ refresh' = None
    /\ UNCHANGED <<csrf_token_form, ncalls, nreq, sent, replies, delays, initial>>
    /\ UNCHANGED input

\* the landing page is answered: the initial batch and the loop's first state
PostsLanding(initial_html) ==
    LET initial_posts == _parse_posts_html(The(initial_html))
    IN
    /\ pc = "p_landing"
    /\ first' = IF initial_html = None THEN "fail"
                ELSE IF initial_posts = <<>> THEN "zero"
                ELSE "some"
    /\ fetched' = IF initial_html = None THEN <<>> ELSE initial_posts
    /\ IF initial_html = None \/ The(initial_html) = <<>> THEN Return(None)
       ELSE IF initial_posts = <<>> THEN Return(Some(<<>>))
       ELSE /\ all_posts' = initial_posts
            /\ last_post_id' = Last(initial_posts).id
            /\ current_offset' = Len(initial_posts)
            /\ has_more' = TRUE
            /\ pc' = "p_loop"
            /\ UNCHANGED <<result, max_pages, max_posts, all_channels, current_page>>
    /\ UNCHANGED <<csrf_token_form, op, ncalls, nreq, sent, last, allGood,
                   morePrefix, noSkip, delays, refresh>>
    /\ initial' = IF initial_html = None THEN 0 ELSE Len(initial_posts)
    /\ UNCHANGED input

\* a slip: the loop does not look at the number of posts it has
PostsContinuesUncounted == has_more /\ TruthyInt(last_post_id)

\* while len(all_posts) < max_posts and has_more and last_post_id
PostsContinues == Len(all_posts) < max_posts /\ has_more /\ TruthyInt(last_post_id)

\* the loop is over, by its condition or by a break: return all_posts[:max_posts]
PostsExit ==
    /\ \/ pc = "p_loop" /\ ~PostsContinues
       \/ pc = "p_break"
    /\ Return(Some(PySlice(all_posts, max_posts)))
    /\ UNCHANGED <<csrf_token_form, op, history>>
    /\ UNCHANGED input

\* time.sleep(random.uniform(2.0, 4.0)), the first statement of the loop body
PostsSleep ==
    /\ pc = "p_loop"
    /\ PostsContinues
    /\ pc' = "p_send"
    /\ delays' = delays + 1
    /\ UNCHANGED <<csrf_token_form, op, result, locals, ncalls, nreq, sent,
                   replies, initial, refresh>>
    /\ UNCHANGED input

\* a slip: the cursor is always the id of the last post parsed
NextCursorLastParsed(reply, new_posts) == Last(new_posts).id

\* the cursor after a reply that brought new_posts
NextCursor(reply, new_posts) ==
    IF The(reply).nextPage = None THEN Last(new_posts).id ELSE The(reply).nextPage

\* a slip: the default does not advance the offset
NextPostsOffsetKept(reply, offset, new_posts) == Get(The(reply).nextOffset, offset)

\* more_posts_result.get('nextOffset', current_offset + len(new_posts))
NextPostsOffset(reply, offset, new_posts) ==
    Get(The(reply).nextOffset, offset + Len(new_posts))

\* a slip: the failure is returned, as search_channels does on its first page
LoadMoreFailedReturnsNone ==
    /\ Return(None)

\* a slip: the failed request is tried again by the next iteration
LoadMoreFailedContinues ==
    /\ pc' = "p_loop"
    /\ UNCHANGED <<result, locals>>

\* the request failed: break, with the locals as they are
LoadMoreFailed ==
    /\ pc' = "p_break"
    /\ UNCHANGED <<result, locals>>

\* a slip: has_more is left as it was
EndOfFeedKeepsMore ==
    /\ pc' = "p_break"
    /\ UNCHANGED <<result, locals>>

\* no html, or no post in it: has_more = False; break
EndOfFeed ==
    /\ has_more' = FALSE
    /\ pc' = "p_break"
    /\ UNCHANGED <<result, max_pages, max_posts, all_channels, all_posts,
                   current_page, current_offset, last_post_id>>

\* the body of the loop from the reply on
PostsHandle(more_posts_result) ==
    LET new_posts == _parse_posts_html(Html(more_posts_result))
    IN
    IF Failed(more_posts_result) THEN LoadMoreFailed
    ELSE IF NoHtml(more_posts_result) THEN EndOfFeed
    ELSE IF new_posts = <<>> THEN EndOfFeed
    ELSE LET cursor == NextCursor(more_posts_result, new_posts)
         IN  /\ all_posts' = all_posts \o new_posts
             /\ has_more' = HasMore(more_posts_result)
             /\ last_post_id' = cursor
             /\ current_offset' =
                    NextPostsOffset(more_posts_result, current_offset, new_posts)
             /\ pc' = IF TruthyInt(cursor) THEN "p_loop" ELSE "p_break"
             /\ UNCHANGED <<result, max_pages, max_posts, all_channels,
                            current_page>>

PostsSeen(more_posts_result) ==
    LET records == PostsRecords(more_posts_result)
    IN
    /\ fetched' = fetched \o records
    /\ last' = Seen(more_posts_result, records)
    /\ allGood' = (allGood /\ Class(more_posts_result, records) = "some")
    /\ morePrefix' = (morePrefix /\ (ncalls = 1 \/ last.hasMore))
    /\ UNCHANGED <<first, noSkip>>

\* _make_more_posts_request is called and has a token for the POST
PostsAcquire(page) ==
    /\ pc = "p_send"
    /\ AcquireToken(csrf_token_form, page)[2]
    /\ csrf_token_form' = AcquireToken(csrf_token_form, page)[1]
    /\ pc' = "p_post"
    /\ ncalls' = ncalls + 1
    /\ refresh' = Refreshed(page)
    /\ UNCHANGED <<op, result, locals, nreq, sent, replies, delays, initial>>
    /\ UNCHANGED input

\* the POST of _make_more_posts_request is sent
PostsSend ==
    /\ pc = "p_post"
    /\ pc' = "p_wait"
    /\ nreq' = nreq + 1
    /\ sent' = [page |-> The(last_post_id), offset |-> current_offset]
    /\ refresh' = None
    /\ UNCHANGED <<csrf_token_form, op, result, locals, ncalls, replies, delays, initial>>
    /\ UNCHANGED input

\* _make_more_posts_request gives up before the POST: the refresh failed
PostsAbort(page) ==
    /\ pc = "p_send"
    /\ ~AcquireToken(csrf_token_form, page)[2]
    /\ csrf_token_form' = AcquireToken(csrf_token_form, page)[1]
    /\ ncalls' = ncalls + 1
    /\ PostsHandle(None)
    /\ last' = Seen(None, <<>>)
    /\ allGood' = FALSE
    /\ morePrefix' = (morePrefix /\ (ncalls = 0 \/ last.hasMore))
    /\ refresh' = Refreshed(page)
    /\ UNCHANGED <<op, nreq, sent, fetched, first, noSkip, delays, initial>>
    /\ UNCHANGED input

\* the POST is answered and the loop body runs on the answer
PostsReply(more_posts_result) ==
    /\ pc = "p_wait"
    /\ PostsHandle(more_posts_result)
    /\ PostsSeen(more_posts_result)
    /\ UNCHANGED <<csrf_token_form, op, ncalls, nreq, sent, delays, initial, refresh>>
    /\ UNCHANGED input

----------------------------------------------------------------------------

Next ==
    \/ \E page \in CarrierPages : Construct(page)
    \/ CallerResumes
    \/ \E pages \in 0..MaxPages : search_channels(pages)
    \/ SearchExit
    \/ \E page \in RefreshPages : SearchAcquire(page)
    \/ SearchSend
    \/ \E page \in RefreshPages : SearchAbort(page)
    \/ \E search_result \in SearchReplies : SearchReply(search_result)
    \/ SearchSleep
    \/ \E name \in Handles : PostsRejected(name)
    \/ \E name \in Handles, posts \in 0..MaxPosts : get_channel_posts(name, posts)
    \/ \E initial_html \in LandingReplies : PostsLanding(initial_html)
    \/ PostsExit
    \/ PostsSleep
    \/ \E page \in RefreshPages : PostsAcquire(page)
    \/ PostsSend
    \/ \E page \in RefreshPages : PostsAbort(page)
    \/ \E more_posts_result \in PostsReplies : PostsReply(more_posts_result)

Spec == Init /\ [][Next]_vars

----------------------------------------------------------------------------
\* The number parser and the two extractors, called on their own.

\* the characters of the texts: digits, the separator, the two suffixes, and
\* the letters of "inf"
Chars == {"0", "2", ".", "k", "m", "i", "n", "f"}

\* the texts of the docstring and of the comments, and some with upper case,
\* spaces and a comma
Examples ==
    {<<"3", "8", ".", "2", "k">>, <<"2", "m">>,
     <<"9", "2", "7", "9", "4", "8", "9">>, <<>>, <<"n", "/", "a">>, <<"0">>,
     <<"g", "a", "r", "b", "a", "g", "e">>, <<"N", "/", "A">>,
     <<" ", "2", " ", "K">>, <<"2", ",", "5", "k">>, <<"9", " ", "2", "7", "9">>}

Texts == SeqsUpTo(Chars, MaxText) \cup Examples

\* the texts of a statistic: a number, no number, and an infinite float
StatTexts == {<<"2", "k">>, <<"x">>, <<"i", "n", "f">>}

\* the number part of the fallback div matches [\d\s,km.]+
FallbackTexts == {<<"5">>}

StatColumns == {None, Some(<<None, None>>)}
                   \cup {Some(cols) : cols \in [1..3 -> Option(StatTexts)]}

\* every card with a link, by its statistics
StatCards ==
    {CardOf(Some(1), FALSE, stats, subs_div) :
         stats \in StatColumns, subs_div \in Option(FallbackTexts)}

Full == Some(<<"2", "k">>)

\* the cards of the longer fragments: without link, well formed, nested, and
\* with a statistic that is an infinite float
FragmentCards ==
    {Card(None),
     CardOf(Some(1), FALSE, Some(<<Full, Full, Full>>), None),
     CardOf(Some(2), TRUE, None, None),
     CardOf(Some(2), FALSE, Some(<<Some(<<"i", "n", "f">>), Full, Full>>), None)}

SearchFragments ==
    SeqsUpTo(FragmentCards, MaxFragment) \cup {<<card>> : card \in StatCards}

StatsRows ==
    [views : Option(StatTexts), shares : Option(StatTexts),
     forwards : Option(StatTexts)]

\* every post with an id, by its body and its stats row
StatPosts ==
    {PostOf(Some(1), FALSE, text, stats_row) :
         text \in Option({"hello"}), stats_row \in Option(StatsRows)}

FullRow == [views |-> Full, shares |-> Full, forwards |-> Full]

\* the posts of the longer fragments: without id, well formed, nested
FragmentPosts ==
    {Post(None),
     PostOf(Some(1), FALSE, Some("hello"), Some(FullRow)),
     PostOf(Some(2), TRUE, None, None)}

PostsFragments ==
    SeqsUpTo(FragmentPosts, MaxFragment) \cup {<<post>> : post \in StatPosts}

\* the fields of the parser and the driver's locals: the extractors touch
\* none of them, and the call's return value is result
parser == <<csrf_token_form, op, locals, history>>

ExtractInit ==
    /\ NoParser
    /\ \/ pc = "parse_number" /\ input \in Texts
       \/ pc = "parse_search" /\ input \in SearchFragments
       \/ pc = "parse_posts" /\ input \in PostsFragments

ParseNumber ==
    /\ pc = "parse_number"
    /\ result' = _parse_number(input)
    /\ pc' = "parse_number_done"
    /\ UNCHANGED <<input, parser>>

ParseSearchHtml ==
    /\ pc = "parse_search"
    /\ result' = _parse_search_html(input)
    /\ pc' = "parse_search_done"
    /\ UNCHANGED <<input, parser>>

ParsePostsHtml ==
    /\ pc = "parse_posts"
    /\ result' = _parse_posts_html(input)
    /\ pc' = "parse_posts_done"
    /\ UNCHANGED <<input, parser>>

ExtractNext ==
    \/ ParseNumber
    \/ ParseSearchHtml
    \/ ParsePostsHtml

ExtractSpec == ExtractInit /\ [][ExtractNext]_vars

----------------------------------------------------------------------------
\* Properties of search_channels.

SearchDone == pc = "done" /\ op = "search"

PostsDone == pc = "done" /\ op = "posts"

\* C1: when the first search request of a call fails (no reply, or a status
\* other than "ok") the call returns None; when it succeeds and its html yields
\* no channel record the call returns the empty list.
C1_FirstRequestOutcome ==
    SearchDone =>
        /\ first = "fail" => result = None
        /\ first \in {"empty", "zero"} => result = Some(<<>>)

C1_Witness == SearchDone /\ first = "zero" /\ nreq = 1 /\ result = Some(<<>>)

\* C2: a call returns None only when its very first request failed; a failure of
\* a later request returns the records accumulated so far.
C2_FailureOnlyOnFirstRequest ==
    SearchDone =>
        /\ result = None => ncalls = 1
        /\ (ncalls > 1 /\ last.class = "fail") => result = Some(fetched)

\* C3: a returned list is the concatenation, in request order, of the records
\* of every page fetched during the call.
C3_ResultIsConcatenation ==
    (SearchDone /\ result # None) => result = Some(fetched)

\* C4, as claimed: while every page is ok with at least one record and hasMore
\* = true, the call goes on as long as the budget lasts, and no request follows
\* a reply whose hasMore is not true.
C4_ExactlyNRequests ==
    /\ (SearchDone /\ allGood /\ morePrefix /\ last.hasMore) => nreq >= max_pages
    /\ (pc = "s_wait" /\ nreq > 1) => last.hasMore

\* C4, amended: the same, for replies that carry no nextPage above the number
\* of requests sent so far.
C4_ExactlyNRequestsNoSkip ==
    /\ (SearchDone /\ allGood /\ morePrefix /\ last.hasMore /\ noSkip)
           => nreq >= max_pages
    /\ (pc = "s_wait" /\ nreq > 1) => last.hasMore

C4_Witness ==
    /\ SearchDone
    /\ allGood /\ morePrefix /\ noSkip
    /\ ~last.hasMore
    /\ nreq = 1 /\ max_pages = 2
    /\ result = Some(fetched)

\* C5: one call sends at most max_pages search requests.
C5_PageBudget == op = "search" => nreq <= max_pages

\* C6: no search request follows a page that is ok, has html and yields no
\* channel record.
C6_ZeroRecordsStop == pc = "s_wait" => last.class # "zero"

\* C7: no search request follows an ok reply whose html is empty or missing, and
\* the call returns the list accumulated so far.
C7_EmptyHtmlStops ==
    /\ pc = "s_wait" => last.class # "empty"
    /\ (SearchDone /\ last.class = "empty") => result = Some(fetched)

C7_Witness ==
    /\ SearchDone
    /\ last.class = "empty" /\ last.hasMore
    /\ nreq = 2 /\ max_pages > 1
    /\ fetched # <<>>

\* C8: the first request of a call asks for page 0 at offset 0; each later one
\* asks for the nextPage and nextOffset of the reply before it, and where a key
\* is absent for the page before + 1 and the offset before + 30.
C8_Continuation ==
    [][(pc = "s_post" /\ pc' = "s_wait") =>
           sent' = IF nreq = 0 THEN [page |-> 0, offset |-> 0]
                   ELSE [page |-> Get(last.nextPage, sent.page + 1),
                         offset |-> Get(last.nextOffset, sent.offset + 30)]]_vars

C8_Witness ==
    /\ pc = "s_wait"
    /\ nreq = 3
    /\ last.nextPage = None /\ last.nextOffset = None
    /\ sent = [page |-> 1, offset |-> 37]

----------------------------------------------------------------------------
\* Properties of get_channel_posts.

\* C9: when the landing page cannot be fetched the call returns None, when it
\* is fetched and yields no post the call returns the empty list; no load-more
\* request is sent in either case.
C9_LandingOutcome ==
    PostsDone =>
        /\ first = "fail" => (result = None /\ nreq = 0)
        /\ first = "zero" => (result = Some(<<>>) /\ nreq = 0)

\* C10: a returned list is the first min(max_posts, n) posts of the n posts
\* accumulated: the initial batch, then every load-more batch in request order.
C10_Truncation ==
    (PostsDone /\ result # None) =>
        /\ Len(The(result)) = Min(max_posts, Len(fetched))
        /\ \A i \in 1..Len(The(result)) : The(result)[i] = fetched[i]

C10_Witness ==
    /\ PostsDone
    /\ result # None
    /\ max_posts > 0
    /\ Len(fetched) > max_posts
    /\ Len(The(result)) = max_posts

\* what the posts fetched so far and the last reply give as the next cursor
CursorSeen ==
    IF nreq = 0 \/ last.nextPage = None THEN Last(fetched).id ELSE last.nextPage

\* the first min(max_posts, n) of the n posts fetched
FetchedUpTo == SubSeq(fetched, 1, Min(max_posts, Len(fetched)))

\* C11: the first load-more request carries the id of the last post of the
\* landing page as its cursor; each later one carries the nextPage of the reply
\* before it, and where that reply has no nextPage the id of the last post of
\* that reply's batch.
C11_Cursor ==
    [][(pc = "p_post" /\ pc' = "p_wait") => Some(sent'.page) = CursorSeen]_vars

C11_Witness ==
    /\ pc = "p_wait"
    /\ nreq = 2
    /\ last.class = "some" /\ last.nextPage = None
    /\ Len(fetched) = 2 /\ fetched[1].id # fetched[2].id
    /\ Some(sent.page) = fetched[2].id

\* C12, as claimed: the offset of the first load-more request is the number of
\* posts of the landing page; after each reply the next offset is the reply's
\* nextOffset, and where the reply has none the number of posts accumulated.
C12_OffsetIsCount ==
    [][/\ (pc = "p_landing" /\ pc' = "p_loop") => current_offset' = Len(fetched')
       /\ (pc = "p_post" /\ pc' = "p_wait") => sent'.offset = current_offset
       /\ (pc = "p_wait" /\ pc' = "p_loop") =>
              current_offset' = Get(last'.nextOffset, Len(fetched'))]_vars

\* C12, amended: where the reply has no nextOffset the next offset is the
\* offset of the request before plus the number of posts of the reply's batch.
C12_OffsetAdvances ==
    [][/\ (pc = "p_landing" /\ pc' = "p_loop") => current_offset' = Len(fetched')
       /\ (pc = "p_post" /\ pc' = "p_wait") => sent'.offset = current_offset
       /\ (pc = "p_wait" /\ pc' = "p_loop") =>
              current_offset' = Get(last'.nextOffset,
                                    sent.offset + Len(fetched') - Len(fetched))]_vars

C12_Witness ==
    /\ pc = "p_loop"
    /\ nreq = 2
    /\ last.class = "some" /\ last.nextOffset = None
    /\ sent.offset = 7
    /\ current_offset = 8 /\ Len(fetched) = 3

\* C13: a load-more request that fails (no reply, or a status other than "ok")
\* is the last one of the call, and the call returns the posts accumulated so
\* far, cut to max_posts, and not None.
C13_LoadMoreFailure ==
    /\ pc \in {"p_loop", "p_send", "p_post", "p_wait"} => last.class # "fail"
    /\ (PostsDone /\ ncalls > 0 /\ last.class = "fail") => result = Some(FetchedUpTo)

C13_Witness ==
    /\ PostsDone
    /\ nreq = 2
    /\ last.class = "fail"
    /\ Len(fetched) = 2
    /\ result = Some(fetched)

\* C14: a load-more reply whose html is empty, or holds no post, ends the feed:
\* has_more is false when the loop is left, no load-more request follows, and
\* the call returns the posts accumulated before that reply, unchanged.
C14_EndOfFeed ==
    /\ (pc = "p_break" /\ last.class \in {"empty", "zero"}) => ~has_more
    /\ pc \in {"p_loop", "p_send", "p_post", "p_wait"} =>
           last.class \notin {"empty", "zero"}
    /\ (PostsDone /\ last.class \in {"empty", "zero"}) => result = Some(fetched)

C14_Witness ==
    /\ PostsDone
    /\ nreq = 2
    /\ last.class = "zero" /\ last.hasMore
    /\ Len(fetched) = 2
    /\ result = Some(fetched)

\* C15: a load-more request is sent only while fewer than max_posts posts are
\* accumulated, the reply before it (if any) had hasMore = true, and a cursor
\* is there: neither None nor 0.  A landing page whose last post has no id, or a
\* reply that leaves no cursor, is followed by no request.
C15_ValidCursor ==
    pc \in {"p_send", "p_post", "p_wait"} =>
        /\ Len(fetched) < max_posts
        /\ nreq > 0 /\ last.class # "none" => last.hasMore
        /\ CursorSeen \notin {None, Some(0)}
        /\ pc = "p_wait" => sent.page # 0

C15_Witness ==
    /\ PostsDone
    /\ nreq = 1
    /\ last.class = "some" /\ last.hasMore /\ last.nextPage = Some(0)
    /\ Len(fetched) < max_posts
    /\ result = Some(fetched)

----------------------------------------------------------------------------
\* Properties of the delays.

\* C16: in a search call the k-th request is preceded by k - 1 delays, and no
\* delay follows the last call of the request method; in a posts call the k-th
\* load-more request is preceded by k delays.
C16_Delays ==
    /\ pc = "s_wait" => delays = nreq - 1
    /\ (SearchDone /\ ncalls > 0) => delays = ncalls - 1
    /\ pc = "p_wait" => delays = nreq

C16_Witness ==
    /\ SearchDone
    /\ nreq = 2 /\ max_pages = 2
    /\ last.class = "some" /\ last.hasMore
    /\ delays = 1

----------------------------------------------------------------------------
\* Properties of the token.

\* the step performs a refresh
RefreshStep == refresh = None /\ refresh' # None

\* the page was not fetched, or carries neither the meta tag nor the input
RefreshFails(found) == ~found.ok \/ found.token = None

\* the request method goes on to its POST
GoesOn == pc' \in {"s_post", "p_post"} /\ nreq' = nreq

\* the request method returns None without a POST
GivesUp == pc' \notin {"s_post", "p_post"} /\ nreq' = nreq /\ last'.class = "fail"

\* C17: after a refresh that fails (the page is not fetched, or carries no
\* token) the stored token is None and the failure is reported (the constructor
\* raises, the request method returns without a POST); after one that succeeds
\* the stored token is the one the page carries.
C17_Refresh ==
    [][RefreshStep =>
          IF RefreshFails(The(refresh'))
          THEN /\ csrf_token_form' = None
               /\ IF pc = "new" THEN pc' = "raised" ELSE GivesUp
          ELSE /\ csrf_token_form' = The(refresh').token
               /\ IF pc = "new" THEN pc' = "idle" ELSE GoesOn]_vars

C17_Witness ==
    /\ op = "search"
    /\ ncalls = 2 /\ nreq = 1
    /\ refresh # None
    /\ RefreshFails(The(refresh))
    /\ csrf_token_form = None

\* C18: when the first refresh fails the constructor raises, and nothing runs
\* on that instance afterwards; when it succeeds the parser holds a token that
\* is not None.
C18_InitFatal ==
    [][/\ pc = "new" => IF RefreshFails(The(refresh'))
                        THEN pc' = "raised"
                        ELSE pc' = "idle" /\ csrf_token_form' # None
       /\ pc # "raised"]_vars

C18_Witness ==
    /\ pc = "raised"
    /\ The(refresh).ok
    /\ csrf_token_form = None
    /\ op = "none" /\ ncalls = 0

\* C19: a request method called with a token stored sends its POST with that
\* token and refreshes nothing; called without one (None, or the empty string,
\* which the code's truth test takes for none) it refreshes once, and goes on
\* to the POST if the refresh succeeded, else sends none and its caller sees a
\* failed request.  The token of a POST is not None.
C19_Acquire ==
    [][/\ ncalls' = ncalls + 1 =>
              IF csrf_token_form \notin {None, Some("")}
              THEN refresh' = None /\ GoesOn /\ csrf_token_form' = csrf_token_form
              ELSE /\ refresh' # None
                   /\ IF RefreshFails(The(refresh')) THEN GivesUp ELSE GoesOn
       /\ nreq' = nreq + 1 =>
              /\ pc \in {"s_post", "p_post"}
              /\ csrf_token_form # None
              /\ csrf_token_form' = csrf_token_form]_vars

C19_Witness ==
    /\ pc \in {"s_post", "p_post"}
    /\ ncalls = 2 /\ nreq = 1
    /\ refresh # None
    /\ The(refresh).token = Some("t1")
    /\ csrf_token_form = Some("t1")

\* C20: after a POST that failed (no reply, or a status other than "ok") no
\* token is left stored, so that the next request method refreshes it.
C20_Invalidation ==
    (pc = "done" /\ nreq > 0 /\ ncalls = nreq /\ last.class = "fail")
        => csrf_token_form \in {None, Some("")}

----------------------------------------------------------------------------
\* Properties of the two loops.

\* C25: after a request that failed (no reply, a status other than "ok", or a
\* refresh that gave no token) the operation sends nothing more: it is at its
\* return, or at the break of the load-more loop, and never back at a
\* position from which a request is sent.
C25_NoRetry ==
    last.class = "fail" => pc \in {"done", "p_break"}

C25_Witness ==
    /\ SearchDone
    /\ max_pages = 2
    /\ ncalls = 2 /\ nreq = 2
    /\ last.class = "fail"
    /\ Len(fetched) = 1

\* C27: once the constructor has returned, the stored token is not None.
C27_TokenKept ==
    pc \notin {"new", "raised"} => csrf_token_form # None

\* C28: a get_channel_posts call sends at most max(0, max_posts - initial)
\* load-more requests, where initial is the number of posts of the landing
\* page, and none when the landing page has max_posts posts or more.
C28_LoadMoreBound ==
    op = "posts" =>
        /\ ncalls <= Max(0, max_posts - initial)
        /\ initial >= max_posts => nreq = 0

C28_Witness ==
    /\ PostsDone
    /\ initial = 1 /\ max_posts = 3
    /\ nreq = 2
    /\ Len(fetched) = 3

----------------------------------------------------------------------------
\* Properties of the extractors and of the number parser.

\* the cards of the fragment that carry a stat-page link, in card order
Linked == SelectSeq(input, HasLink)

\* C21: the channel extractor returns exactly one record per card that has a
\* stat-page link, in card order, and none for the other cards.
C21_OnePerLinkedCard ==
    pc = "parse_search_done" =>
        /\ Len(result) = Len(Linked)
        /\ \A i \in 1..Len(result) : result[i].username = The(Linked[i].id)

\* C22: every record the post extractor returns has an id: a post container
\* without one is skipped.
C22_PostsHaveIds ==
    pc = "parse_posts_done" => \A i \in 1..Len(result) : result[i].id # None

\* the number a text stands for: none when it cannot be parsed
Normalized(text) ==
    IF text = None THEN None ELSE _parse_number(The(text)).value

\* C23: a post without stats row yields a record whose three metrics are
\* None and whose other fields are those of the post; with the
\* row, each metric is the number of its own element, or None without the
\* element or when its text is no number, whatever the other two are.
C23_PostMetrics ==
    (pc = "parse_posts_done" /\ Len(input) = 1 /\ input[1] \in StatPosts) =>
        /\ Len(result) = 1
        /\ result[1].id = input[1].id
        /\ result[1].text = input[1].text
        /\ LET row == IF input[1].stats_row = None
                      THEN [views |-> None, shares |-> None, forwards |-> None]
                      ELSE The(input[1].stats_row)
           IN  /\ result[1].views = Normalized(row.views)
               /\ result[1].shares = Normalized(row.shares)
               /\ result[1].forwards = Normalized(row.forwards)

\* C24: the number parser gives 38200 for "38.2k", 2000000 for "2m", 9279489
\* for "9279489", 0 for "", "n/a" and "0", and None for "garbage"; it returns
\* for every text, a number or None, and never None for a text of digits.
C24_Normalize ==
    pc = "parse_number_done" =>
        /\ input = <<"3", "8", ".", "2", "k">> => result = Returns(Some(38200))
        /\ input = <<"2", "m">> => result = Returns(Some(2000000))
        /\ input = <<"9", "2", "7", "9", "4", "8", "9">>
               => result = Returns(Some(9279489))
        /\ input \in {<<>>, <<"n", "/", "a">>, <<"0">>} => result = Returns(Some(0))
        /\ input = <<"g", "a", "r", "b", "a", "g", "e">> => result = Returns(None)
        /\ ~result.raises
        /\ AllDigits(input) => result.value # None

\* C26: a card with a link and three stat columns yields its record in every
\* case; average reach and ci index are each the number of their own column,
\* or None without a value; subscribers is the number of the first column
\* when that is a number, and None when the card has no value for it.
C26_CardStats ==
    (/\ pc = "parse_search_done"
     /\ Len(input) = 1
     /\ input[1] \in StatCards
     /\ input[1].stats # None
     /\ Len(The(input[1].stats)) = 3) =>
        LET cols == The(input[1].stats)
        IN  /\ Len(result) = 1
            /\ result[1].avg_reach = Normalized(cols[2])
            /\ result[1].ci_index = Normalized(cols[3])
            /\ Normalized(cols[1]) # None =>
                   result[1].subscribers = Normalized(cols[1])
            /\ (cols[1] = None /\ input[1].subs_div = None) =>
                   result[1].subscribers = None

====
